---- MODULE Spec2Model ----
(***************************************************************************)
(* Render coordination of the trace viewer: the visualization store        *)
(* (traceVisualizationStore), the resize handling of                       *)
(* TraceVisualizationContainer, the auto-render effect of                  *)
(* TraceControlPanel, the render hook useTraceLoader and the wheel zoom    *)
(* and drag pan of TraceCanvas.                                            *)
(*                                                                         *)
(* One step of the model is one task of the single UI event loop: an       *)
(* input handler or a timer/promise callback together with the store       *)
(* update, the re-render and the effects it causes.                        *)
(*                                                                         *)
(* Number representation: pixel measurements delivered by the browser are  *)
(* in tenths of a pixel; percentile is in hundredths, manual scale in      *)
(* tenths, zoomLevel in units of 1/ZoomScale.                              *)
(*                                                                         *)
(* Time is not measured: a timer is pending or not, and a pending timer    *)
(* may fire at any later step.  The store fields showControls and          *)
(* canvasSize are written but never read by the code modelled here and are *)
(* left out; the request's filePath is constant while the container is     *)
(* mounted and is left out of the payload.  Mouse positions and panOffset  *)
(* are in whole pixels.                                                    *)
(*                                                                         *)
(* The container can be unmounted (a file load starts); the browser's live *)
(* timers are counted apart from the variables that hold their handles.    *)
(*                                                                         *)
(* The header panel's hook useTraceHeader (tabs, trace slider, header      *)
(* loads) is modelled beside it; the two share the app store's file state. *)
(***************************************************************************)
EXTENDS Integers, Sequences, FiniteSets, TLC

VARIABLES
    \* traceVisualizationStore
    renderMode, colormap, amplitudeScaling, viewport, wiggleConfig,
    currentImage, isRendering, zoomLevel, panOffset,
    \* appStore: filePath and segyData are both set
    fileLoaded,
    \* App: TraceVisualizationContainer (with its panel and canvas) is rendered
    mounted,
    \* TraceVisualizationContainer
    canvasSize, timeoutId, containerSize, observerPending,
    \* TraceControlPanel
    renderTimeout, hasRenderedOnce,
    \* the browser's timers: how many timers set by handleResize, and by the
    \* auto-render effect, have neither fired nor been cleared
    settleTimers, renderTimers,
    \* TraceCanvas
    isDragging, dragStart,
    \* useTraceLoader: the calls of loadAndRenderVariableDensity, in call order
    req,
    \* the last step: the toast it showed, the invoke payloads it sent, the
    \* wheel event and the mouse event it handled, the text it was given by the
    \* Start or Count field
    toast, sent, wheelEvent, mouseEvent, textEvent,
    \* useTraceHeader (called by App): its state, whether its 300 ms timer is
    \* pending, and the calls of loadTrace in call order
    headerView, traceId, sliderValue, currentTrace, loadingTrace, traceTimer, loads

storeCfg  == <<renderMode, colormap, amplitudeScaling, viewport, wiggleConfig>>
renderOut == <<currentImage, isRendering>>
viewState == <<zoomLevel, panOffset>>
appVars   == <<fileLoaded, mounted>>
container == <<canvasSize, timeoutId, settleTimers, containerSize, observerPending>>
panel     == <<renderTimeout, renderTimers, hasRenderedOnce>>
canvas    == <<isDragging, dragStart>>
loader    == <<req>>
events    == <<toast, sent, wheelEvent, mouseEvent, textEvent>>
header    == <<headerView, traceId, sliderValue, currentTrace, loadingTrace,
               traceTimer, loads>>
vars == <<storeCfg, renderOut, viewState, appVars, container, panel, canvas,
         loader, events, header>>

----------------------------------------------------------------------------
(* Bounds of the model *)

\* number of calls of loadAndRenderVariableDensity that explored runs make
MaxIssued == 2
\* the right stepper of Start is explored up to this trace index
MaxStartTrace == 1
\* the Count steppers are explored this far from the default and from 1
MaxCountStep == 1
\* fixed-point denominator of zoomLevel
ZoomScale == 1000
\* drags are explored while panOffset stays within this many pixels of the origin
MaxPan == 10
\* where wheel and drag events are mixed, the wheel is explored while zoomLevel
\* stays within this distance (in units of 1/ZoomScale) of 1.0
MaxZoomDrift == 120
\* segyData.total_traces: the trace slider runs from 1 to MaxTrace
MaxTrace == 2
\* calls of loadTrace in one run
MaxLoads == 3

----------------------------------------------------------------------------
(* Types and defaults *)

Max(a, b) == IF a >= b THEN a ELSE b
Min(a, b) == IF a <= b THEN a ELSE b
Abs(a) == IF a >= 0 THEN a ELSE -a

RenderModes == {"variable-density", "wiggle", "wiggle-variable-density"}
ColormapTypes == {"seismic", "grayscale", "grayscale-inverted", "viridis"}

DEFAULT_VIEWPORT ==
    [startTrace |-> 0, traceCount |-> 500, width |-> 800, height |-> 600]

DEFAULT_WIGGLE_CONFIG ==
    [lineWidth |-> 10, lineColor |-> <<0, 0, 0>>,
     fillPositive |-> TRUE, fillNegative |-> FALSE,
     positiveFillColor |-> <<0, 0, 0>>, negativeFillColor |-> <<255, 0, 0>>]

\* JavaScript null, where the other values are records
Null == [null |-> TRUE]

NoToast == [kind |-> "none", req |-> 0]
NoTimeout == [pending |-> FALSE]
NoMouse == [kind |-> "none"]
Origin == [x |-> 0, y |-> 0]
NoText == [field |-> "none"]

----------------------------------------------------------------------------
(* traceVisualizationStore: the setters, as functions of the old value *)

\* updateViewport: { ...state.viewport, ...partial }
UpdateViewport(vp, partial) ==
    [k \in DOMAIN vp |-> IF k \in DOMAIN partial THEN partial[k] ELSE vp[k]]

\* setAmplitudeScaling: the new value replaces the old one
SetAmplitudeScaling(old, scaling) == scaling

\* setZoomLevel
SetZoomLevel(old, zoom) == zoom

----------------------------------------------------------------------------
(* TraceControlPanel: the Scaling Type select and the trace range inputs *)

ScalingOptions == {"per-trace", "percentile", "manual"}

\* variant of ScalingForType: the new type is merged into the old value
ScalingForTypeMerged(old, type) == [type |-> type] @@ old

\* the value the select's onChange hands to setAmplitudeScaling
ScalingForType(old, type) ==
    IF type = "per-trace" THEN [type |-> "per-trace"]
    ELSE IF type = "percentile" THEN [type |-> "percentile", percentile |-> 98]
    ELSE IF type = "manual" THEN [type |-> "manual", scale |-> 10]
    ELSE old

Digits == <<"0", "1", "2", "3", "4", "5", "6", "7", "8", "9">>
IsDigit(c) == \E d \in 1..10 : Digits[d] = c
DigitVal(c) == (CHOOSE d \in 1..10 : Digits[d] = c) - 1

RECURSIVE SkipSpace(_, _)
SkipSpace(s, i) == IF i <= Len(s) /\ s[i] = " " THEN SkipSpace(s, i + 1) ELSE i

RECURSIVE ParseDigits(_, _, _)
ParseDigits(s, i, acc) ==
    IF i > Len(s) \/ ~IsDigit(s[i]) THEN acc
    ELSE ParseDigits(s, i + 1, acc * 10 + DigitVal(s[i]))

\* parseInt(e.target.value): s is the text, one character per element
ParseInt(s) ==
    LET b == SkipSpace(s, 1)
        signed == b <= Len(s) /\ s[b] \in {"-", "+"}
        d == IF signed THEN b + 1 ELSE b
    IN  IF d > Len(s) \/ ~IsDigit(s[d]) THEN [nan |-> TRUE, val |-> 0]
        ELSE [nan |-> FALSE,
              val |-> IF signed /\ s[b] = "-" THEN 0 - ParseDigits(s, d, 0)
                      ELSE ParseDigits(s, d, 0)]

----------------------------------------------------------------------------
(* TraceVisualizationContainer: clampSize and isResizeSignificant *)

\* Math.round of a non-negative measurement given in tenths
Round10(t) == (t + 5) \div 10

\* variant of ClampSize: rounding only, without the minimum of 100
ClampSizeRoundOnly(raw) ==
    [width |-> Round10(raw[1]), height |-> Round10(raw[2])]

ClampSize(raw) ==
    [width |-> Max(100, Round10(raw[1])), height |-> Max(100, Round10(raw[2]))]

\* Math.round(x * 0.005) and Math.round(x * 0.008), x a non-negative integer
RoundFrac005(x) == (5 * x + 500) \div 1000
RoundFrac008(x) == (8 * x + 500) \div 1000

\* variant of IsResizeSignificant: the thresholds must be exceeded
IsResizeSignificantStrict(currentViewport, newWidth, newHeight) ==
    LET currentArea == currentViewport.width * currentViewport.height
        nextArea == newWidth * newHeight
        areaDelta == Abs(nextArea - currentArea)
        areaThreshold == Max(2000, RoundFrac005(currentArea))
        dimensionThreshold ==
            Max(6, RoundFrac008(Min(currentViewport.width, currentViewport.height)))
    IN  \/ areaDelta > areaThreshold
        \/ Abs(newWidth - currentViewport.width) > dimensionThreshold
        \/ Abs(newHeight - currentViewport.height) > dimensionThreshold

IsResizeSignificant(currentViewport, newWidth, newHeight) ==
    LET currentArea == currentViewport.width * currentViewport.height
        nextArea == newWidth * newHeight
        areaDelta == Abs(nextArea - currentArea)
        areaThreshold == Max(2000, RoundFrac005(currentArea))
        dimensionThreshold ==
            Max(6, RoundFrac008(Min(currentViewport.width, currentViewport.height)))
    IN  \/ areaDelta >= areaThreshold
        \/ Abs(newWidth - currentViewport.width) >= dimensionThreshold
        \/ Abs(newHeight - currentViewport.height) >= dimensionThreshold

----------------------------------------------------------------------------
(* useTraceLoader and the Tauri wrapper *)

\* the values loadAndRenderVariableDensity closes over (its useCallback deps)
Closure(rm, cm, sc, vp, wc) ==
    [viewport |-> vp, colormapType |-> cm, scaling |-> sc,
     renderMode |-> rm, wiggleConfig |-> wc]

\* variant of RenderVariableDensity: wiggleConfig is passed through as given
RenderVariableDensityPassThrough(params) ==
    [viewport |-> params.viewport,
     colormapType |-> params.colormapType,
     scaling |-> params.scaling,
     renderMode |-> params.renderMode,
     wiggleConfig |-> params.wiggleConfig]

\* renderVariableDensity: the payload handed to invoke('render_variable_density')
RenderVariableDensity(params) ==
    [viewport |-> params.viewport,
     colormapType |-> params.colormapType,
     scaling |-> params.scaling,
     renderMode |-> params.renderMode,
     wiggleConfig |-> IF params.renderMode # "variable-density"
                      THEN params.wiggleConfig ELSE Null]

----------------------------------------------------------------------------
(* TraceCanvas: wheel zoom *)

ZoomMin == ZoomScale \div 10
ZoomMax == 10 * ZoomScale

\* zoomLevel * delta, delta = 0.9 for deltaY > 0 and 1.1 otherwise,
\* rounded to the nearest representable value
WheelProduct(zoom, deltaY) ==
    IF deltaY > 0 THEN (zoom * 9 + 5) \div 10 ELSE (zoom * 11 + 5) \div 10

\* variant of ClampZoom: the upper limit is missing
ClampZoomNoUpper(x) == Max(ZoomMin, x)

\* Math.max(0.1, Math.min(10, x))
ClampZoom(x) == Max(ZoomMin, Min(ZoomMax, x))

\* TraceCanvas is rendered only under !isRendering && currentImage, inside
\* the container
CanvasMounted == mounted /\ ~isRendering /\ currentImage # 0

----------------------------------------------------------------------------
(* Inputs the explored runs draw from *)

\* container measurements, in tenths of a pixel
RawSizes == {<<8000, 6000>>, <<8024, 6006>>, <<9000, 7000>>, <<504, 0>>}
\* options picked in the Colormap select
ColormapInputs == {"grayscale", "seismic"}
\* texts typed into the Start and Count fields
TextInputs == {<<"-", "5">>, <<"1">>, <<"x">>}
\* positions of the percentile slider (min 0.5, max 1.0, step 0.01)
PercentileInputs == {50, 98}
\* values typed into the Scale Factor field
ScaleInputs == {10, 25}
\* texts of the AGC Window field
WindowInputs == {<<>>, <<"1", "0">>, <<"0">>, <<"-", "5">>}
\* arguments of direct calls of the store's updateViewport
ViewportPartials ==
    {[startTrace |-> 0 - 5], [startTrace |-> 3], [traceCount |-> 0],
     [traceCount |-> 20], [width |-> 50], [height |-> 99],
     [width |-> 640, height |-> 480],
     [startTrace |-> 0, traceCount |-> 1, width |-> 100, height |-> 100]}
\* e.deltaY of wheel events
WheelDeltas == {-100, 0, 100}
\* committed sizes and the offsets (in pixels) of the sizes observed next
CommittedSizes ==
    {<<800, 600>>, <<100, 100>>, <<1000, 1000>>, <<345, 1260>>, <<2000, 1250>>}
SizeOffsets == {-10, -9, -6, -5, -1, 0, 2, 5, 6, 8, 9, 10}
\* e.clientX, e.clientY of mouse events
MousePoints == {[x |-> 0, y |-> 0], [x |-> 10, y |-> 5]}

----------------------------------------------------------------------------
(* Initial state: the store as created, TraceControlPanel mounted (its      *)
(* effect returned at the placeholder guard), TraceVisualizationContainer  *)
(* about to take its first measurement.                                    *)

Init ==
    /\ renderMode = "variable-density"
    /\ colormap = "grayscale"
    /\ amplitudeScaling = [type |-> "percentile", percentile |-> 98]
    /\ viewport = DEFAULT_VIEWPORT
    /\ wiggleConfig = DEFAULT_WIGGLE_CONFIG
    /\ currentImage = 0
    /\ isRendering = FALSE
    /\ zoomLevel = ZoomScale
    /\ panOffset = Origin
    /\ fileLoaded = TRUE
    /\ mounted = TRUE
    /\ settleTimers = 0
    /\ renderTimers = 0
    /\ canvasSize = [width |-> 800, height |-> 600]
    /\ timeoutId = FALSE
    /\ containerSize \in RawSizes
    /\ observerPending = TRUE
    /\ renderTimeout = NoTimeout
    /\ hasRenderedOnce = FALSE
    /\ isDragging = FALSE
    /\ dragStart = Origin
    /\ req = <<>>
    /\ toast = NoToast
    /\ sent = <<>>
    /\ wheelEvent = <<>>
    /\ mouseEvent = NoMouse
    /\ textEvent = NoText
    /\ headerView = "binary"
    /\ traceId = 1
    /\ sliderValue = 1
    /\ currentTrace = 0
    /\ loadingTrace = FALSE
    /\ traceTimer = FALSE
    /\ loads = <<>>

\* the step shows no toast, sends nothing and handles no wheel or mouse event
NoOutput ==
    toast' = NoToast /\ sent' = <<>> /\ wheelEvent' = <<>> /\ mouseEvent' = NoMouse

\* ... and no text of the Start or Count field either
Quiet == NoOutput /\ textEvent' = NoText

----------------------------------------------------------------------------
(* TraceControlPanel: the auto-render effect.  It runs after a render in    *)
(* which one of its dependencies changed identity; rm, cm, sc, vp are the   *)
(* values of that render.  clearTimeout + setTimeout replace the timer, and *)
(* the new timer's callback closes over the loader of that render.          *)

\* variant of AutoRenderEffect: a timer that is restarted keeps the callback
\* of the timer it replaces
AutoRenderEffectStaleClosure(rm, cm, sc, vp) ==
    IF ~hasRenderedOnce /\ vp.width = 800 /\ vp.height = 600
    THEN UNCHANGED panel
    ELSE /\ renderTimers' = renderTimers - (IF renderTimeout.pending THEN 1 ELSE 0) + 1
         /\ renderTimeout' =
              [pending |-> TRUE,
               delay |-> IF hasRenderedOnce THEN 600 ELSE 250,
               closure |-> IF renderTimeout.pending THEN renderTimeout.closure
                           ELSE Closure(rm, cm, sc, vp, wiggleConfig)]
         /\ hasRenderedOnce' = TRUE

\* variant of AutoRenderEffect: without the placeholder guard
AutoRenderEffectNoGuard(rm, cm, sc, vp) ==
    /\ renderTimers' = renderTimers - (IF renderTimeout.pending THEN 1 ELSE 0) + 1
    /\ renderTimeout' =
          [pending |-> TRUE,
           delay |-> IF hasRenderedOnce THEN 600 ELSE 250,
           closure |-> Closure(rm, cm, sc, vp, wiggleConfig)]
    /\ hasRenderedOnce' = TRUE

AutoRenderEffect(rm, cm, sc, vp) ==
    IF ~hasRenderedOnce /\ vp.width = 800 /\ vp.height = 600
    THEN UNCHANGED panel
    ELSE /\ renderTimers' = renderTimers - (IF renderTimeout.pending THEN 1 ELSE 0) + 1
         /\ renderTimeout' =
              [pending |-> TRUE,
               delay |-> IF hasRenderedOnce THEN 600 ELSE 250,
               closure |-> Closure(rm, cm, sc, vp, wiggleConfig)]
         /\ hasRenderedOnce' = TRUE

\* a store update of the render-relevant fields, the re-render and the effect
CommitStore(rm, cm, sc, vp) ==
    /\ mounted
    /\ renderMode' = rm
    /\ colormap' = cm
    /\ amplitudeScaling' = sc
    /\ viewport' = vp
    /\ AutoRenderEffect(rm, cm, sc, vp)
    /\ UNCHANGED <<wiggleConfig, renderOut, viewState, appVars, header, canvas,
                   container, loader>>

\* ... made by a control other than the Start and Count text fields
CommitRenderKey(rm, cm, sc, vp) ==
    /\ CommitStore(rm, cm, sc, vp)
    /\ Quiet

\* Mode select
ChangeRenderMode ==
    \E m \in RenderModes \ {renderMode} :
        CommitRenderKey(m, colormap, amplitudeScaling, viewport)

\* Colormap select
ChangeColormap ==
    \E c \in (ColormapInputs \cap ColormapTypes) \ {colormap} :
        CommitRenderKey(renderMode, c, amplitudeScaling, viewport)

\* Scaling Type select
SelectScalingType ==
    \E t \in ScalingOptions \ {amplitudeScaling.type} :
        CommitRenderKey(renderMode, colormap,
            SetAmplitudeScaling(amplitudeScaling, ScalingForType(amplitudeScaling, t)),
            viewport)

\* AGC Window field
EditWindow ==
    /\ amplitudeScaling.type = "per-trace"
    /\ \E val \in WindowInputs :
        CommitRenderKey(renderMode, colormap,
            SetAmplitudeScaling(amplitudeScaling,
                [type |-> "per-trace",
                 windowSize |-> IF val # <<>> THEN <<ParseInt(val).val>> ELSE <<>>]),
            viewport)

\* Percentile slider
EditPercentile ==
    /\ amplitudeScaling.type = "percentile"
    /\ \E p \in PercentileInputs \ {amplitudeScaling.percentile} :
        CommitRenderKey(renderMode, colormap,
            SetAmplitudeScaling(amplitudeScaling,
                [type |-> "percentile", percentile |-> p]),
            viewport)

\* Scale Factor field
EditScale ==
    /\ amplitudeScaling.type = "manual"
    /\ \E x \in ScaleInputs \ {amplitudeScaling.scale} :
        CommitRenderKey(renderMode, colormap,
            SetAmplitudeScaling(amplitudeScaling, [type |-> "manual", scale |-> x]),
            viewport)

\* the trace windows the explored runs stay in
InWindow(vp) ==
    /\ vp.startTrace <= MaxStartTrace
    /\ \/ vp.traceCount <= 1 + MaxCountStep
       \/ Abs(vp.traceCount - DEFAULT_VIEWPORT.traceCount) <= MaxCountStep

\* a call of updateViewport from the trace range controls
CommitViewport(partial) ==
    /\ InWindow(UpdateViewport(viewport, partial))
    /\ CommitRenderKey(renderMode, colormap, amplitudeScaling,
                       UpdateViewport(viewport, partial))

StartDec == CommitViewport([startTrace |-> Max(0, viewport.startTrace - 1)])
StartInc == CommitViewport([startTrace |-> viewport.startTrace + 1])
CountDec == CommitViewport([traceCount |-> Max(1, viewport.traceCount - 1)])
CountInc == CommitViewport([traceCount |-> viewport.traceCount + 1])

\* variant of TextEdit: without the isNaN test, so that a text that is no
\* number is committed as the field's minimum
TextEditNoNaNTest(field, least) ==
    \E text \in TextInputs :
        LET val == ParseInt(text)
            vp == UpdateViewport(viewport,
                      [f \in {field} |-> Max(least, IF val.nan THEN least ELSE val.val)])
        IN  /\ textEvent' = [field |-> field, text |-> text]
            /\ NoOutput
            /\ InWindow(vp)
            /\ CommitStore(renderMode, colormap, amplitudeScaling, vp)

\* Start / Count text fields: const val = parseInt(e.target.value);
\* if (!isNaN(val)) updateViewport({ [field]: Math.max(least, val) })
TextEdit(field, least) ==
    \E text \in TextInputs :
        LET val == ParseInt(text)
            vp == UpdateViewport(viewport, [f \in {field} |-> Max(least, val.val)])
        IN  /\ textEvent' = [field |-> field, text |-> text]
            /\ NoOutput
            /\ IF val.nan
               THEN UNCHANGED <<storeCfg, renderOut, viewState, appVars, header,
                                canvas, container, panel, loader>>
               ELSE /\ InWindow(vp)
                    /\ CommitStore(renderMode, colormap, amplitudeScaling, vp)

StartText == TextEdit("startTrace", 0)

CountText == TextEdit("traceCount", 1)

----------------------------------------------------------------------------
(* TraceVisualizationContainer *)

\* the pane changes size; the ResizeObserver will report it
ContainerResized ==
    /\ mounted
    /\ \E raw \in RawSizes \ {containerSize} : containerSize' = raw
    /\ observerPending' = TRUE
    /\ UNCHANGED <<storeCfg, renderOut, viewState, appVars, header, canvas, canvasSize,
                   timeoutId, settleTimers, panel, loader>>
    /\ Quiet

\* variant of HandleResize: an insignificant size leaves a pending timer alone
HandleResizeKeepsTimer(raw) ==
    LET new == ClampSize(raw)
        significant == IsResizeSignificant(viewport, new.width, new.height)
    IN  /\ canvasSize' = new
        /\ timeoutId' = (timeoutId \/ significant)
        /\ settleTimers' = IF significant
                           THEN settleTimers - (IF timeoutId THEN 1 ELSE 0) + 1
                           ELSE settleTimers

\* variant of HandleResize: the local canvas size follows significant sizes only
HandleResizeGatedCanvas(raw) ==
    LET new == ClampSize(raw)
        significant == IsResizeSignificant(viewport, new.width, new.height)
    IN  /\ canvasSize' = IF significant THEN new ELSE canvasSize
        /\ timeoutId' = significant
        /\ settleTimers' = settleTimers - (IF timeoutId THEN 1 ELSE 0)
                                        + (IF significant THEN 1 ELSE 0)

\* handleResize(rawWidth, rawHeight)
HandleResize(raw) ==
    LET new == ClampSize(raw)
        significant == IsResizeSignificant(viewport, new.width, new.height)
    IN  /\ canvasSize' = new
        \* clearTimeout(timeoutId) on both paths, setTimeout on the significant one
        /\ timeoutId' = significant
        /\ settleTimers' = settleTimers - (IF timeoutId THEN 1 ELSE 0)
                                        + (IF significant THEN 1 ELSE 0)

\* variant of ObserveResize: the measured size is committed at once when it
\* differs from the viewport's
ObserveResizeCommits ==
    /\ mounted
    /\ observerPending
    /\ HandleResize(containerSize)
    /\ observerPending' = FALSE
    /\ LET new == ClampSize(containerSize)
       IN  IF new.width # viewport.width \/ new.height # viewport.height
           THEN /\ viewport' = UpdateViewport(viewport,
                                   [width |-> new.width, height |-> new.height])
                /\ AutoRenderEffect(renderMode, colormap, amplitudeScaling, viewport')
           ELSE UNCHANGED <<viewport, panel>>
    /\ UNCHANGED <<renderMode, colormap, amplitudeScaling, wiggleConfig, renderOut,
                   viewState, appVars, header, canvas, containerSize, loader>>
    /\ Quiet

\* the mount-time call of handleResize and the ResizeObserver callback
ObserveResize ==
    /\ mounted
    /\ observerPending
    /\ HandleResize(containerSize)
    /\ observerPending' = FALSE
    /\ UNCHANGED <<storeCfg, renderOut, viewState, appVars, header, canvas, containerSize,
                   panel, loader>>
    /\ Quiet

\* variant of SettleExpire: the callback commits the size that was handed to
\* handleResize instead of measuring the container again
SettleExpireStartSize ==
    /\ timeoutId
    /\ timeoutId' = FALSE
    /\ settleTimers' = settleTimers - 1
    /\ LET next == canvasSize
       IN  IF mounted /\ IsResizeSignificant(viewport, next.width, next.height)
           THEN /\ viewport' = UpdateViewport(viewport,
                                   [width |-> next.width, height |-> next.height])
                /\ AutoRenderEffect(renderMode, colormap, amplitudeScaling, viewport')
           ELSE UNCHANGED <<viewport, panel>>
    /\ UNCHANGED <<renderMode, colormap, amplitudeScaling, wiggleConfig, renderOut,
                   viewState, appVars, header, canvas, canvasSize, containerSize,
                   observerPending, loader>>
    /\ Quiet

\* variant of SettleExpire: the callback commits whatever it measures
SettleExpireNoGate ==
    /\ timeoutId
    /\ timeoutId' = FALSE
    /\ settleTimers' = settleTimers - 1
    /\ LET next == ClampSize(containerSize)
       IN  /\ viewport' = UpdateViewport(viewport,
                               [width |-> next.width, height |-> next.height])
           /\ AutoRenderEffect(renderMode, colormap, amplitudeScaling, viewport')
    /\ UNCHANGED <<renderMode, colormap, amplitudeScaling, wiggleConfig, renderOut,
                   viewState, appVars, header, canvas, canvasSize, containerSize,
                   observerPending, loader>>
    /\ Quiet

\* the 400 ms timer set by handleResize fires
SettleExpire ==
    /\ timeoutId
    /\ timeoutId' = FALSE
    /\ settleTimers' = settleTimers - 1
    \* if (mainRef.current): the ref is null once the container is unmounted
    /\ LET next == ClampSize(containerSize)
       IN  IF mounted /\ IsResizeSignificant(viewport, next.width, next.height)
           THEN /\ viewport' = UpdateViewport(viewport,
                                   [width |-> next.width, height |-> next.height])
                /\ AutoRenderEffect(renderMode, colormap, amplitudeScaling, viewport')
           ELSE UNCHANGED <<viewport, panel>>
    /\ UNCHANGED <<renderMode, colormap, amplitudeScaling, wiggleConfig, renderOut,
                   viewState, appVars, header, canvas, canvasSize, containerSize, observerPending,
                   loader>>
    /\ Quiet

\* variant of Unmount: the cleanups leave the timers running
UnmountLeavesTimers ==
    /\ mounted
    /\ mounted' = FALSE
    /\ observerPending' = FALSE
    /\ isDragging' = FALSE
    /\ dragStart' = Origin
    /\ UNCHANGED <<storeCfg, renderOut, viewState, fileLoaded, header, canvasSize, timeoutId,
                   settleTimers, containerSize, panel, loader>>
    /\ Quiet

\* App stops rendering the container (a file load starts): the cleanups of
\* the container's effect and of the panel's effect run
Unmount ==
    /\ mounted
    /\ mounted' = FALSE
    \* resizeObserver.disconnect(); if (timeoutId) clearTimeout(timeoutId)
    /\ observerPending' = FALSE
    /\ timeoutId' = FALSE
    /\ settleTimers' = settleTimers - (IF timeoutId THEN 1 ELSE 0)
    \* if (renderTimeoutRef.current) clearTimeout(renderTimeoutRef.current)
    /\ renderTimeout' = NoTimeout
    /\ renderTimers' = renderTimers - (IF renderTimeout.pending THEN 1 ELSE 0)
    \* the components' local state goes with them
    /\ isDragging' = FALSE
    /\ dragStart' = Origin
    /\ UNCHANGED <<storeCfg, renderOut, viewState, fileLoaded, header, canvasSize,
                   containerSize, hasRenderedOnce, loader>>
    /\ Quiet

----------------------------------------------------------------------------
(* useTraceLoader: loadAndRenderVariableDensity.  req[i] is the position of *)
(* the i-th call: "render" (awaiting renderVariableDensity), "decode"       *)
(* (awaiting createImageFromRendered), "ok" or "failed".  An image is named *)
(* by the call that produced it; currentImage = 0 is null.                  *)

Issued == Len(req)
Unresolved(i) == req[i] \in {"render", "decode"}

\* variant of LoadAndRender: without the test of filePath and segyData
LoadAndRenderNoFileCheck(c) ==
    /\ isRendering' = TRUE
    /\ toast' = [kind |-> "loading", req |-> Issued + 1]
    /\ sent' = <<RenderVariableDensity(c)>>
    /\ req' = Append(req, "render")
    /\ UNCHANGED currentImage

\* lines 30-49: the call up to the first await, with the closed-over values c.
\* filePath and segyData are dependencies of the callback, so a change of
\* either replaces a pending timer: the values the callback closes over are
\* the app store's
LoadAndRender(c) ==
    IF ~fileLoaded
    THEN /\ toast' = [kind |-> "error", req |-> 0]
         /\ sent' = <<>>
         /\ UNCHANGED <<renderOut, loader>>
    ELSE /\ isRendering' = TRUE
         /\ toast' = [kind |-> "loading", req |-> Issued + 1]
         /\ sent' = <<RenderVariableDensity(c)>>
         /\ req' = Append(req, "render")
         /\ UNCHANGED currentImage

\* the render debounce timer fires
RenderExpire ==
    /\ renderTimeout.pending
    /\ Issued < MaxIssued
    /\ renderTimeout' = NoTimeout
    /\ renderTimers' = renderTimers - 1
    /\ LoadAndRender(renderTimeout.closure)
    \* TraceCanvas is unmounted while isRendering: its local state is dropped
    /\ IF isRendering' THEN isDragging' = FALSE /\ dragStart' = Origin
                       ELSE UNCHANGED canvas
    /\ wheelEvent' = <<>>
    /\ mouseEvent' = NoMouse
    /\ textEvent' = NoText
    /\ UNCHANGED <<storeCfg, viewState, appVars, header, container, hasRenderedOnce>>

\* renderVariableDensity resolves; createImageFromRendered starts
RenderResolved ==
    \E i \in 1..Issued :
        /\ req[i] = "render"
        /\ req' = [req EXCEPT ![i] = "decode"]
        /\ UNCHANGED <<storeCfg, renderOut, viewState, appVars, header, canvas, container, panel>>
        /\ Quiet

\* variant of RenderSucceeded: the success path leaves isRendering alone
RenderSucceededKeepsSpinner(i) ==
    /\ currentImage' = i
    /\ toast' = [kind |-> "success", req |-> i]
    /\ req' = [req EXCEPT ![i] = "ok"]
    /\ UNCHANGED isRendering

\* lines 53-55 and 61: the image loaded
RenderSucceeded(i) ==
    /\ currentImage' = i
    /\ toast' = [kind |-> "success", req |-> i]
    /\ isRendering' = FALSE
    /\ req' = [req EXCEPT ![i] = "ok"]

\* variant of RenderFailed: without the finally block
RenderFailedNoFinally(i) ==
    /\ toast' = [kind |-> "error", req |-> i]
    /\ req' = [req EXCEPT ![i] = "failed"]
    /\ UNCHANGED <<currentImage, isRendering>>

\* lines 56-61: catch and finally
RenderFailed(i) ==
    /\ toast' = [kind |-> "error", req |-> i]
    /\ isRendering' = FALSE
    /\ req' = [req EXCEPT ![i] = "failed"]
    /\ UNCHANGED currentImage

\* variant of ImageLoaded: the image is among the dependencies of the
\* auto-render effect
ImageLoadedRearms ==
    \E i \in 1..Issued :
        /\ req[i] = "decode"
        /\ RenderSucceeded(i)
        /\ AutoRenderEffect(renderMode, colormap, amplitudeScaling, viewport)
        /\ sent' = <<>>
        /\ wheelEvent' = <<>>
        /\ mouseEvent' = NoMouse
        /\ textEvent' = NoText
        /\ UNCHANGED <<storeCfg, viewState, appVars, header, canvas, container>>

\* variant of ImageLoaded: a new image resets the view
ImageLoadedResetsView ==
    \E i \in 1..Issued :
        /\ req[i] = "decode"
        /\ RenderSucceeded(i)
        /\ zoomLevel' = ZoomScale
        /\ panOffset' = Origin
        /\ sent' = <<>>
        /\ wheelEvent' = <<>>
        /\ mouseEvent' = NoMouse
        /\ textEvent' = NoText
        /\ UNCHANGED <<storeCfg, appVars, header, canvas, container, panel>>

ImageLoaded ==
    \E i \in 1..Issued :
        /\ req[i] = "decode"
        /\ RenderSucceeded(i)
        /\ sent' = <<>>
        /\ wheelEvent' = <<>>
        /\ mouseEvent' = NoMouse
        /\ textEvent' = NoText
        /\ UNCHANGED <<storeCfg, viewState, appVars, header, canvas, container, panel>>

\* renderVariableDensity rejects
RenderRejected ==
    \E i \in 1..Issued :
        /\ req[i] = "render"
        /\ RenderFailed(i)
        /\ sent' = <<>>
        /\ wheelEvent' = <<>>
        /\ mouseEvent' = NoMouse
        /\ textEvent' = NoText
        /\ UNCHANGED <<storeCfg, viewState, appVars, header, canvas, container, panel>>

\* variant of ImageError: the image that failed to load is handed to the store
ImageErrorShowsPartial ==
    \E i \in 1..Issued :
        /\ req[i] = "decode"
        /\ currentImage' = i
        /\ toast' = [kind |-> "error", req |-> i]
        /\ isRendering' = FALSE
        /\ req' = [req EXCEPT ![i] = "failed"]
        /\ sent' = <<>>
        /\ wheelEvent' = <<>>
        /\ mouseEvent' = NoMouse
        /\ textEvent' = NoText
        /\ UNCHANGED <<storeCfg, viewState, appVars, header, canvas, container, panel>>

\* createImageFromRendered rejects (img.onerror)
ImageError ==
    \E i \in 1..Issued :
        /\ req[i] = "decode"
        /\ RenderFailed(i)
        /\ sent' = <<>>
        /\ wheelEvent' = <<>>
        /\ mouseEvent' = NoMouse
        /\ textEvent' = NoText
        /\ UNCHANGED <<storeCfg, viewState, appVars, header, canvas, container, panel>>

----------------------------------------------------------------------------
(* TraceCanvas *)

\* variant of HandleWheel: the zoom level is among the dependencies of the
\* auto-render effect
HandleWheelSchedulesRender ==
    /\ CanvasMounted
    /\ \E deltaY \in WheelDeltas :
        /\ zoomLevel' =
              SetZoomLevel(zoomLevel, ClampZoom(WheelProduct(zoomLevel, deltaY)))
        /\ wheelEvent' = <<deltaY>>
    /\ AutoRenderEffect(renderMode, colormap, amplitudeScaling, viewport)
    /\ toast' = NoToast
    /\ sent' = <<>>
    /\ mouseEvent' = NoMouse
    /\ textEvent' = NoText
    /\ UNCHANGED <<storeCfg, renderOut, panOffset, appVars, header, canvas, container,
                   loader>>

HandleWheel ==
    /\ CanvasMounted
    /\ \E deltaY \in WheelDeltas :
        /\ zoomLevel' =
              SetZoomLevel(zoomLevel, ClampZoom(WheelProduct(zoomLevel, deltaY)))
        /\ wheelEvent' = <<deltaY>>
    /\ toast' = NoToast
    /\ sent' = <<>>
    /\ mouseEvent' = NoMouse
    /\ textEvent' = NoText
    /\ UNCHANGED <<storeCfg, renderOut, panOffset, appVars, header, canvas, container,
                   panel, loader>>

\* wheel events that keep the zoom level near 1.0
HandleWheelNear ==
    /\ HandleWheel
    /\ Abs(zoomLevel' - ZoomScale) <= MaxZoomDrift

\* the handlers below belong to the canvas element: no canvas, no event
CanvasIdle ==
    /\ toast' = NoToast
    /\ textEvent' = NoText
    /\ sent' = <<>>
    /\ wheelEvent' = <<>>
    /\ UNCHANGED <<storeCfg, renderOut, zoomLevel, appVars, header, container, panel, loader>>

HandleMouseDown ==
    /\ CanvasMounted
    /\ \E e \in MousePoints :
        /\ isDragging' = TRUE
        /\ dragStart' = [x |-> e.x - panOffset.x, y |-> e.y - panOffset.y]
        /\ mouseEvent' = [kind |-> "down", x |-> e.x, y |-> e.y]
    /\ UNCHANGED panOffset
    /\ CanvasIdle

\* variant of HandleMouseMove: without the test of isDragging
HandleMouseMoveAlways ==
    /\ CanvasMounted
    /\ \E e \in MousePoints :
        /\ panOffset' = [x |-> e.x - dragStart.x, y |-> e.y - dragStart.y]
        /\ Abs(panOffset'.x) <= MaxPan
        /\ Abs(panOffset'.y) <= MaxPan
        /\ mouseEvent' = [kind |-> "move", x |-> e.x, y |-> e.y]
    /\ UNCHANGED canvas
    /\ CanvasIdle

HandleMouseMove ==
    /\ CanvasMounted
    /\ \E e \in MousePoints :
        /\ IF ~isDragging THEN UNCHANGED panOffset
           ELSE /\ panOffset' = [x |-> e.x - dragStart.x, y |-> e.y - dragStart.y]
                /\ Abs(panOffset'.x) <= MaxPan
                /\ Abs(panOffset'.y) <= MaxPan
        /\ mouseEvent' = [kind |-> "move", x |-> e.x, y |-> e.y]
    /\ UNCHANGED canvas
    /\ CanvasIdle

HandleMouseUp ==
    /\ CanvasMounted
    /\ isDragging' = FALSE
    /\ mouseEvent' = [kind |-> "up"]
    /\ UNCHANGED <<dragStart, panOffset>>
    /\ CanvasIdle

HandleMouseLeave ==
    /\ CanvasMounted
    /\ isDragging' = FALSE
    /\ mouseEvent' = [kind |-> "leave"]
    /\ UNCHANGED <<dragStart, panOffset>>
    /\ CanvasIdle

----------------------------------------------------------------------------
(* The store's resetView *)

\* resetView(), called on a store whose viewport has left DEFAULT_VIEWPORT:
\* the viewport is replaced as well, so the panel's effect runs
ResetView ==
    /\ viewport # DEFAULT_VIEWPORT
    /\ viewport' = DEFAULT_VIEWPORT
    /\ zoomLevel' = ZoomScale
    /\ panOffset' = Origin
    /\ IF mounted
       THEN AutoRenderEffect(renderMode, colormap, amplitudeScaling, DEFAULT_VIEWPORT)
       ELSE UNCHANGED panel
    /\ UNCHANGED <<renderMode, colormap, amplitudeScaling, wiggleConfig, renderOut,
                   appVars, header, canvas, container, loader>>
    /\ Quiet

----------------------------------------------------------------------------
(* The app store's setFilePath *)

\* setFilePath(null) while the container is shown: segyData stays, so the
\* container stays; the loader's callback changes identity and the panel's
\* effect runs
SetFilePathNull ==
    /\ mounted
    /\ fileLoaded
    /\ fileLoaded' = FALSE
    /\ AutoRenderEffect(renderMode, colormap, amplitudeScaling, viewport)
    \* loadTrace changes identity too: the header hook's timer effect runs
    \* again, and a loadTrace called without a file path returns at once
    /\ traceTimer' = (headerView = "trace")
    /\ UNCHANGED <<headerView, traceId, sliderValue, currentTrace, loadingTrace, loads>>
    /\ UNCHANGED <<storeCfg, renderOut, viewState, mounted, canvas, container, loader>>
    /\ Quiet

----------------------------------------------------------------------------
(* useTraceHeader.  segyData is set whenever its panel is shown.  A header  *)
(* is named by the index of its trace; currentTrace = 0 is null.  loads[k]  *)
(* is the k-th call of loadTrace that passed its guard: the index asked     *)
(* for, "load" (awaiting loadSingleTrace), "ok" or "failed", and whether    *)
(* resetTraceState has run since the call.  The timer's callback closes     *)
(* over sliderValue and traceId, and the effect replaces the timer whenever *)
(* one of them changes, so the callback's values are the current ones.      *)

HeaderViews == {"textual", "binary", "trace"}

\* loadTrace(n), lines 36-40: up to the await
LoadTrace(n) ==
    IF ~fileLoaded THEN UNCHANGED <<loadingTrace, loads>>
    ELSE /\ loadingTrace' = TRUE
         /\ loads' = Append(loads, [index |-> n, state |-> "load", beforeReset |-> FALSE])

\* a tab of the header panel; both effects run for the new view
SetHeaderView ==
    \E v \in HeaderViews \ {headerView} :
        /\ headerView' = v
        /\ traceTimer' = (v = "trace")
        /\ IF v = "trace" /\ currentTrace = 0
           THEN Len(loads) < MaxLoads /\ LoadTrace(traceId)
           ELSE UNCHANGED <<loadingTrace, loads>>
        /\ UNCHANGED <<traceId, sliderValue, currentTrace>>
        /\ UNCHANGED <<storeCfg, renderOut, viewState, appVars, container, panel,
                       canvas, loader>>
        /\ Quiet

\* the trace slider (shown in the trace view); the timer effect runs again
MoveSlider ==
    /\ headerView = "trace"
    /\ \E n \in (1..MaxTrace) \ {sliderValue} : sliderValue' = n
    /\ traceTimer' = TRUE
    /\ UNCHANGED <<headerView, traceId, currentTrace, loadingTrace, loads>>
    /\ UNCHANGED <<storeCfg, renderOut, viewState, appVars, container, panel,
                   canvas, loader>>
    /\ Quiet

\* the 300 ms timer fires.  When it sets traceId both effects run again: the
\* timer is set anew, and while currentTrace is null loadTrace is called a
\* second time, by the effect that loads the first header
TraceTimerExpire ==
    /\ traceTimer
    /\ IF sliderValue # traceId
       THEN /\ traceId' = sliderValue
            /\ traceTimer' = TRUE
            /\ IF ~fileLoaded THEN UNCHANGED <<loadingTrace, loads>>
               ELSE LET call == [index |-> sliderValue, state |-> "load",
                                 beforeReset |-> FALSE]
                        calls == IF currentTrace = 0 THEN <<call, call>> ELSE <<call>>
                    IN  /\ Len(loads) + Len(calls) <= MaxLoads
                        /\ loadingTrace' = TRUE
                        /\ loads' = loads \o calls
       ELSE /\ traceTimer' = FALSE
            /\ UNCHANGED <<traceId, loadingTrace, loads>>
    /\ UNCHANGED <<headerView, sliderValue, currentTrace>>
    /\ UNCHANGED <<storeCfg, renderOut, viewState, appVars, container, panel,
                   canvas, loader>>
    /\ Quiet

\* loadSingleTrace resolves: lines 46 and 52
TraceLoaded ==
    \E k \in 1..Len(loads) :
        /\ loads[k].state = "load"
        /\ currentTrace' = loads[k].index
        /\ loadingTrace' = FALSE
        /\ loads' = [loads EXCEPT ![k].state = "ok"]
        /\ UNCHANGED <<headerView, traceId, sliderValue, traceTimer>>
        /\ UNCHANGED <<storeCfg, renderOut, viewState, appVars, container, panel,
                       canvas, loader>>
        /\ Quiet

\* loadSingleTrace rejects: lines 47-52
TraceLoadFailed ==
    \E k \in 1..Len(loads) :
        /\ loads[k].state = "load"
        /\ loadingTrace' = FALSE
        /\ loads' = [loads EXCEPT ![k].state = "failed"]
        /\ toast' = [kind |-> "error", req |-> 0]
        /\ sent' = <<>>
        /\ wheelEvent' = <<>>
        /\ mouseEvent' = NoMouse
        /\ textEvent' = NoText
        /\ UNCHANGED <<headerView, traceId, sliderValue, currentTrace, traceTimer>>
        /\ UNCHANGED <<storeCfg, renderOut, viewState, appVars, container, panel,
                       canvas, loader>>

\* resetTraceState(); the view leaves "trace", so the timer effect's cleanup
\* clears the timer and no effect starts anything
ResetTraceState ==
    /\ headerView' = "binary"
    /\ traceId' = 1
    /\ sliderValue' = 1
    /\ currentTrace' = 0
    /\ loadingTrace' = FALSE
    /\ traceTimer' = FALSE
    /\ loads' = [k \in DOMAIN loads |-> [loads[k] EXCEPT !.beforeReset = TRUE]]
    /\ UNCHANGED <<storeCfg, renderOut, viewState, appVars, container, panel,
                   canvas, loader>>
    /\ Quiet

----------------------------------------------------------------------------
(* Specifications *)

\* a caller of the store invokes updateViewport(partial)
StoreUpdateViewport ==
    \E partial \in ViewportPartials :
        CommitRenderKey(renderMode, colormap, amplitudeScaling,
                        UpdateViewport(viewport, partial))

\* the render coordination loop: inputs, timers, render calls and their outcomes
Next ==
    \/ ChangeRenderMode
    \/ StartDec
    \/ StartInc
    \/ ContainerResized
    \/ ObserveResize
    \/ SettleExpire
    \/ RenderExpire
    \/ RenderResolved
    \/ ImageLoaded
    \/ RenderRejected
    \/ ImageError

Spec == Init /\ [][Next]_vars

\* every kind of render-relevant change, the two timers and the dispatch
NextDebounce ==
    \/ ChangeRenderMode
    \/ ChangeColormap
    \/ SelectScalingType
    \/ StartDec
    \/ StartInc
    \/ StartText
    \/ ContainerResized
    \/ ObserveResize
    \/ SettleExpire
    \/ RenderExpire

SpecDebounce == Init /\ [][NextDebounce]_vars

\* the control panel's inputs, up to the scheduling of a render
NextControls ==
    \/ SelectScalingType
    \/ EditWindow
    \/ EditPercentile
    \/ EditScale
    \/ StartDec
    \/ StartInc
    \/ StartText
    \/ CountDec
    \/ CountInc
    \/ CountText
    \/ ObserveResize
    \/ SettleExpire

SpecControls == Init /\ [][NextControls]_vars

\* the store's updateViewport under arbitrary arguments
NextStore == StoreUpdateViewport

SpecStore == Init /\ [][NextStore]_vars

\* the canvas: a first image is rendered, then wheel events
NextZoom ==
    \/ ObserveResize
    \/ SettleExpire
    \/ RenderExpire
    \/ RenderResolved
    \/ ImageLoaded
    \/ HandleWheel

SpecZoom == Init /\ [][NextZoom]_vars

\* the canvas: a first image is rendered, then wheel and mouse events and
\* changes of the trace window
NextCanvas ==
    \/ ObserveResize
    \/ SettleExpire
    \/ RenderExpire
    \/ RenderResolved
    \/ ImageLoaded
    \/ StartInc
    \/ HandleWheelNear
    \/ HandleMouseDown
    \/ HandleMouseMove
    \/ HandleMouseUp
    \/ HandleMouseLeave

SpecCanvas == Init /\ [][NextCanvas]_vars

\* the resize handling from a committed size: a first image has been rendered
\* at the size committed last, and the pane has just changed size
InitSignificance ==
    /\ renderMode = "variable-density"
    /\ colormap = "grayscale"
    /\ amplitudeScaling = [type |-> "percentile", percentile |-> 98]
    /\ \E c \in CommittedSizes :
          /\ viewport = UpdateViewport(DEFAULT_VIEWPORT,
                                       [width |-> c[1], height |-> c[2]])
          /\ canvasSize = [width |-> c[1], height |-> c[2]]
          /\ \E a \in SizeOffsets : \E b \in SizeOffsets :
                containerSize = <<10 * (c[1] + a), 10 * (c[2] + b)>>
    /\ wiggleConfig = DEFAULT_WIGGLE_CONFIG
    /\ currentImage = 1
    /\ isRendering = FALSE
    /\ zoomLevel = ZoomScale
    /\ panOffset = Origin
    /\ fileLoaded = TRUE
    /\ mounted = TRUE
    /\ settleTimers = 0
    /\ renderTimers = 0
    /\ timeoutId = FALSE
    /\ observerPending = TRUE
    /\ renderTimeout = NoTimeout
    /\ hasRenderedOnce = TRUE
    /\ isDragging = FALSE
    /\ dragStart = Origin
    /\ req = <<"ok">>
    /\ toast = NoToast
    /\ sent = <<>>
    /\ wheelEvent = <<>>
    /\ mouseEvent = NoMouse
    /\ textEvent = NoText
    /\ headerView = "binary"
    /\ traceId = 1
    /\ sliderValue = 1
    /\ currentTrace = 0
    /\ loadingTrace = FALSE
    /\ traceTimer = FALSE
    /\ loads = <<>>

NextSignificance ==
    \/ ObserveResize
    \/ SettleExpire

SpecSignificance == InitSignificance /\ [][NextSignificance]_vars

\* the container is taken away while timers and requests are outstanding
NextUnmount ==
    \/ StartInc
    \/ ContainerResized
    \/ ObserveResize
    \/ SettleExpire
    \/ RenderExpire
    \/ RenderResolved
    \/ ImageLoaded
    \/ Unmount

SpecUnmount == Init /\ [][NextUnmount]_vars

\* the render loop with a Renderer that always answers: a call can fail only
\* when its bytes are decoded
NextDecode ==
    \/ ChangeRenderMode
    \/ ObserveResize
    \/ SettleExpire
    \/ RenderExpire
    \/ RenderResolved
    \/ ImageLoaded
    \/ ImageError

SpecDecode == Init /\ [][NextDecode]_vars

\* every way the user interface writes the viewport: the trace range controls
\* and the container's size
NextViewport ==
    \/ StartDec
    \/ StartInc
    \/ CountDec
    \/ CountInc
    \/ StartText
    \/ CountText
    \/ ContainerResized
    \/ ObserveResize
    \/ SettleExpire

SpecViewport == Init /\ [][NextViewport]_vars

\* zooming and panning between renders that succeed or fail
NextView ==
    \/ ObserveResize
    \/ SettleExpire
    \/ StartInc
    \/ RenderExpire
    \/ RenderResolved
    \/ ImageLoaded
    \/ ImageError
    \/ HandleWheelNear
    \/ HandleMouseDown
    \/ HandleMouseMove

SpecView == Init /\ [][NextView]_vars

\* a view that is zoomed and then reset
NextReset ==
    \/ ObserveResize
    \/ SettleExpire
    \/ StartInc
    \/ RenderExpire
    \/ RenderResolved
    \/ ImageLoaded
    \/ HandleWheelNear
    \/ ResetView

SpecReset == Init /\ [][NextReset]_vars

\* one configuration: the measured size is committed once, and the only
\* input after that is the Start decrement stepper, pressed at startTrace 0
NextNoop ==
    \/ ObserveResize
    \/ SettleExpire
    \/ StartDec
    \/ RenderExpire
    \/ RenderResolved
    \/ ImageLoaded
    \/ RenderRejected
    \/ ImageError

SpecNoop == Init /\ [][NextNoop]_vars

\* the render loop of a container whose file path is taken away
NextNoFile ==
    \/ ObserveResize
    \/ SettleExpire
    \/ ChangeRenderMode
    \/ SetFilePathNull
    \/ RenderExpire
    \/ RenderResolved
    \/ ImageLoaded

SpecNoFile == Init /\ [][NextNoFile]_vars

\* the header panel: tabs, the trace slider, its timer and the header loads
NextHeader ==
    \/ SetHeaderView
    \/ MoveSlider
    \/ TraceTimerExpire
    \/ TraceLoaded
    \/ TraceLoadFailed
    \/ ResetTraceState

SpecHeader == Init /\ [][NextHeader]_vars

\* the Start and Count text fields, before and after the first render
NextText ==
    \/ StartText
    \/ CountText
    \/ ObserveResize
    \/ SettleExpire
    \/ RenderExpire

SpecText == Init /\ [][NextText]_vars

\* the render loop left to itself: the observer's callback runs, the timers
\* fire, and every render call comes to an end (its bytes arrive or it
\* rejects, its image loads or fails to).  Changes of the render mode are the
\* user's and may or may not happen.
NextLive ==
    \/ ChangeRenderMode
    \/ ObserveResize
    \/ SettleExpire
    \/ RenderExpire
    \/ RenderResolved
    \/ RenderRejected
    \/ ImageLoaded
    \/ ImageError

SpecLive ==
    /\ Init
    /\ [][NextLive]_vars
    /\ WF_vars(ObserveResize)
    /\ WF_vars(SettleExpire)
    /\ WF_vars(RenderExpire)
    /\ WF_vars(RenderResolved \/ RenderRejected)
    /\ WF_vars(ImageLoaded \/ ImageError)

----------------------------------------------------------------------------
(* Claims *)

\* C1: for requests a issued before b, once b's image is the current image a
\* later successful response to a does not change it, and when a request and
\* the latest request have both resolved successfully the current image is
\* the latest request's image.
C1_StaleSuccessNeverOverwrites ==
    [][ /\ \A a \in 1..Issued : \A b \in 1..Issued :
              (a < b /\ currentImage = b /\ req[a] = "decode" /\ req'[a] = "ok")
                  => currentImage' = b
        /\ \A a \in 1..Len(req') :
              (a < Len(req') /\ req'[a] = "ok" /\ req'[Len(req')] = "ok")
                  => currentImage' = Len(req')
      ]_vars

\* C2: a step that issues a render request is the expiry of the pending
\* debounce timer, issues exactly one request, leaves no timer pending and
\* sends the store's render-relevant state as it is at that moment; a step
\* that changes the render-relevant state issues nothing and, once the
\* placeholder guard has been passed, leaves the timer pending.
C2_TrailingEdgeDebounce ==
    [][ /\ (Len(req') # Len(req) \/ sent' # <<>>) =>
              /\ renderTimeout.pending
              /\ ~renderTimeout'.pending
              /\ Len(req') = Len(req) + 1
              /\ Len(sent') = 1
              /\ sent'[1].viewport = viewport
              /\ sent'[1].renderMode = renderMode
              /\ sent'[1].colormapType = colormap
              /\ sent'[1].scaling = amplitudeScaling
              /\ storeCfg' = storeCfg
        /\ storeCfg' # storeCfg =>
              /\ req' = req
              /\ sent' = <<>>
              /\ hasRenderedOnce' => renderTimeout'.pending
      ]_vars

\* C2 witness: the only request issued so far carries a render mode, a
\* colormap, a scaling and a trace window that were all changed before it.
C2_Witness ==
    /\ Issued = 1
    /\ sent # <<>>
    /\ sent[1].renderMode = "wiggle"
    /\ sent[1].colormapType = "seismic"
    /\ sent[1].scaling = [type |-> "manual", scale |-> 10]
    /\ sent[1].viewport.startTrace = 1
    /\ sent[1].viewport.width = 900

\* C3: a successful response to a request that is not the latest, arriving
\* while the latest is unresolved, changes neither currentImage nor
\* isRendering (so that isRendering, true since the latest request was
\* issued, is still true after it).
C3_StaleSuccessIsDiscarded ==
    [][ \A a \in 1..Issued :
            (a < Issued /\ req[a] = "decode" /\ req'[a] = "ok" /\ Unresolved(Issued))
                => /\ currentImage' = currentImage
                   /\ isRendering' = isRendering
                   /\ isRendering'
      ]_vars

\* C4: when the render call of the latest issued request fails, an error
\* toast is shown for it, isRendering becomes false and currentImage keeps
\* its value.
C4_LatestFailureSurfaces ==
    [][ (Issued >= 1 /\ req[Issued] = "render" /\ req'[Issued] = "failed") =>
            /\ toast'.kind = "error"
            /\ toast'.req = Issued
            /\ ~isRendering'
            /\ currentImage' = currentImage
      ]_vars

\* C4 witness: the latest request has failed after an earlier one succeeded;
\* the error is shown, the earlier image is still the current one.
C4_Witness ==
    /\ Issued >= 2
    /\ req[Issued] = "failed"
    /\ toast = [kind |-> "error", req |-> Issued]
    /\ currentImage = Issued - 1
    /\ ~isRendering

\* C5: when the render call of a superseded request fails, no error toast is
\* shown and currentImage and isRendering are unchanged.
C5_StaleFailureIsSilent ==
    [][ \A a \in 1..Issued :
            (a < Issued /\ req[a] = "render" /\ req'[a] = "failed") =>
                /\ toast'.kind # "error"
                /\ isRendering' = isRendering
                /\ currentImage' = currentImage
      ]_vars

\* C6: after any call of updateViewport the committed viewport has
\* startTrace >= 0, traceCount >= 1, width >= 100 and height >= 100.
C6_ViewportClamped ==
    /\ viewport.startTrace >= 0
    /\ viewport.traceCount >= 1
    /\ viewport.width >= 100
    /\ viewport.height >= 100

\* C7: a size observation that is insignificant against the committed
\* viewport leaves the viewport and the render timer as they are, leaves no
\* settle timer pending and issues no render; the expiry of the settle timer
\* at the size last observed commits that size and leaves a render scheduled.
C7_ResizeSignificance ==
    [][ /\ ( /\ observerPending /\ ~observerPending'
             /\ ~IsResizeSignificant(viewport, ClampSize(containerSize).width,
                                     ClampSize(containerSize).height) )
           => /\ viewport' = viewport
              /\ ~timeoutId'
              /\ renderTimeout' = renderTimeout
              /\ req' = req
              /\ sent' = <<>>
        /\ ( /\ timeoutId /\ ~timeoutId' /\ observerPending' = observerPending
             /\ ~observerPending
             /\ ClampSize(containerSize) = canvasSize )
           => /\ viewport'.width = canvasSize.width
              /\ viewport'.height = canvasSize.height
              /\ viewport' # viewport
              /\ renderTimeout'.pending
      ]_vars

\* C7 witness: a size has been committed (800x600, after another one), and a
\* later observation of 802x601 left it committed with no settle timer.
C7_Witness ==
    /\ hasRenderedOnce
    /\ viewport.width = 800 /\ viewport.height = 600
    /\ canvasSize = [width |-> 802, height |-> 601]
    /\ ~observerPending
    /\ ~timeoutId

\* C8: the zoom level is always within [0.1, 10.0], and a wheel event sets it
\* to the clamped product with 1.1 when scrolling up (deltaY < 0) and with
\* 0.9 when scrolling down (deltaY > 0), up to the rounding of the product.
C8_ZoomWithinLimits ==
    [][ /\ zoomLevel >= ZoomMin /\ zoomLevel <= ZoomMax
        /\ zoomLevel' >= ZoomMin /\ zoomLevel' <= ZoomMax
        /\ wheelEvent' = <<>> => zoomLevel' = zoomLevel
        /\ (wheelEvent' # <<>> /\ wheelEvent'[1] < 0) =>
              \E x \in (11 * zoomLevel - 5) \div 10 .. (11 * zoomLevel + 14) \div 10 :
                  /\ Abs(10 * x - 11 * zoomLevel) <= 5
                  /\ zoomLevel' = IF x < ZoomMin THEN ZoomMin
                                 ELSE IF x > ZoomMax THEN ZoomMax ELSE x
        /\ (wheelEvent' # <<>> /\ wheelEvent'[1] > 0) =>
              \E x \in (9 * zoomLevel - 5) \div 10 .. (9 * zoomLevel + 14) \div 10 :
                  /\ Abs(10 * x - 9 * zoomLevel) <= 5
                  /\ zoomLevel' = IF x < ZoomMin THEN ZoomMin
                                 ELSE IF x > ZoomMax THEN ZoomMax ELSE x
      ]_vars

\* C8 witness: scrolling up has brought the zoom level to its upper limit.
C8_Witness ==
    /\ wheelEvent # <<>>
    /\ wheelEvent[1] < 0
    /\ zoomLevel = ZoomMax

\* C9: whenever the scaling type changes, the new value is exactly the target
\* type's default: manual with scale 1.0, percentile with 0.98, per-trace
\* with no window, and no other field.
C9_VariantSwitchResets ==
    [][ amplitudeScaling'.type # amplitudeScaling.type =>
            \/ amplitudeScaling' = [type |-> "manual", scale |-> 10]
            \/ amplitudeScaling' = [type |-> "percentile", percentile |-> 98]
            \/ /\ amplitudeScaling'.type = "per-trace"
               /\ DOMAIN amplitudeScaling' = {"type"}
      ]_vars

\* C9 witness: per-trace scaling without a window key, which only the type
\* select produces, scheduled for rendering.
C9_Witness ==
    /\ amplitudeScaling = [type |-> "per-trace"]
    /\ renderTimeout.pending
    /\ renderTimeout.closure.scaling = amplitudeScaling

\* C10: the request just sent carries wiggleConfig = null when the render mode
\* is variable-density and the store's (non-null) wiggleConfig otherwise.
C10_WiggleConfigByMode ==
    sent # <<>> =>
        /\ sent[1].renderMode = renderMode
        /\ renderMode = "variable-density" => sent[1].wiggleConfig = Null
        /\ renderMode # "variable-density" =>
              /\ sent[1].wiggleConfig = wiggleConfig
              /\ sent[1].wiggleConfig # Null

\* C10 witness: a request in wiggle mode was just sent with the store's config.
C10_Witness ==
    /\ sent # <<>>
    /\ sent[1].renderMode = "wiggle"
    /\ sent[1].wiggleConfig = DEFAULT_WIGGLE_CONFIG

\* C11: a wheel or mouse event on the canvas changes nothing but zoomLevel,
\* panOffset and the canvas's drag state: the viewport, render mode, colormap,
\* scaling, current image and isRendering keep their values, the render
\* debounce timer is neither started, cancelled nor restarted, and no render
\* request is issued.
C11_PanZoomNeverRenders ==
    [][ (wheelEvent' # <<>> \/ mouseEvent'.kind # "none") =>
            /\ viewport' = viewport
            /\ renderMode' = renderMode
            /\ colormap' = colormap
            /\ amplitudeScaling' = amplitudeScaling
            /\ currentImage' = currentImage
            /\ isRendering' = isRendering
            /\ renderTimeout' = renderTimeout
            /\ hasRenderedOnce' = hasRenderedOnce
            /\ req' = req
            /\ sent' = <<>>
            /\ timeoutId' = timeoutId
      ]_vars

\* C11 witness: with a render timer pending after the first image, the wheel
\* has changed the zoom level and a drag has just moved the pan offset.
C11_Witness ==
    /\ Issued = 1
    /\ renderTimeout.pending
    /\ zoomLevel # ZoomScale
    /\ mouseEvent.kind = "move"
    /\ panOffset # Origin

\* C12: for as long as the viewport's width and height have stayed at the
\* placeholder 800x600 no render is scheduled and none is issued: every step
\* that leaves them there leaves the panel in its waiting state, whatever else
\* it changes, and in the waiting state no render timer is pending and no
\* request has been issued.
C12_NoRenderAtPlaceholder ==
    [][ /\ ~hasRenderedOnce =>
              /\ viewport.width = 800 /\ viewport.height = 600
              /\ ~renderTimeout.pending
              /\ req = <<>>
        /\ (~hasRenderedOnce /\ viewport'.width = 800 /\ viewport'.height = 600) =>
              /\ ~hasRenderedOnce'
              /\ ~renderTimeout'.pending
              /\ req' = <<>>
              /\ sent' = <<>>
      ]_vars

\* C12 witness: the render mode, the colormap, the scaling and the trace window
\* have all been changed at the placeholder size, and nothing is scheduled.
C12_Witness ==
    /\ viewport.width = 800 /\ viewport.height = 600
    /\ renderMode = "wiggle"
    /\ colormap = "seismic"
    /\ amplitudeScaling.type = "manual"
    /\ viewport.startTrace = 1
    /\ ~hasRenderedOnce
    /\ ~renderTimeout.pending
    /\ Issued = 0

\* C13: the request just dispatched carries a sequence number, and that number
\* is the count of requests issued so far (1 for the first, greater for each
\* later one, never reused).
C13_SequenceNumbers ==
    sent # <<>> =>
        /\ "seq" \in DOMAIN sent[1]
        /\ sent[1].seq = Issued

\* C14: a size observation never commits a size; the viewport's width and
\* height change only when the pending settle timer expires, that step leaves
\* no settle timer behind (one commit per burst of observations), and the
\* size it commits is the container's size at that moment, rounded and
\* clamped, not the size whose observation started the timer.
C14_SettleCommitsOnce ==
    [][ /\ (observerPending /\ ~observerPending') => viewport' = viewport
        /\ (viewport'.width # viewport.width \/ viewport'.height # viewport.height) =>
              /\ timeoutId
              /\ ~timeoutId'
              /\ observerPending' = observerPending
              /\ viewport'.width = ClampSize(containerSize).width
              /\ viewport'.height = ClampSize(containerSize).height
              /\ viewport'.startTrace = viewport.startTrace
              /\ viewport'.traceCount = viewport.traceCount
      ]_vars

\* C14 witness: the timer was started by an observation of 900x700, the pane
\* shrank before it expired, and the size committed is the one measured at
\* expiry (100x100) while the last observed size is still 900x700.
C14_Witness ==
    /\ viewport.width = 100 /\ viewport.height = 100
    /\ canvasSize = [width |-> 900, height |-> 700]
    /\ observerPending
    /\ ~timeoutId

\* C15: while a render request is in flight and an image is on display, wheel
\* and mouse events are accepted: the wheel handler and the mouse-down handler
\* can run.
C15_PanZoomWhileRendering ==
    (currentImage # 0 /\ \E i \in 1..Issued : Unresolved(i)) =>
        /\ ENABLED HandleWheel
        /\ ENABLED HandleMouseDown

\* C16: for a committed size (w0,h0) and an observed size (w1,h1), both with
\* integer components >= 100, the observation is found significant (the
\* settle timer is started) exactly when |w1*h1 - w0*h0| >= max(2000,
\* round(0.005*w0*h0)) or |w1-w0| >= max(6, round(0.008*min(w0,h0))) or
\* |h1-h0| >= max(6, round(0.008*min(w0,h0))), round being to the nearest
\* integer with halves up.
C16_SignificanceFormula ==
    [][ (observerPending /\ ~observerPending') =>
            LET w0 == viewport.width
                h0 == viewport.height
                w1 == canvasSize'.width
                h1 == canvasSize'.height
                area == w0 * h0
                m == IF w0 <= h0 THEN w0 ELSE h0
                \* r = round(area / 200): -1/2 < r - area/200 <= 1/2
                roundArea == CHOOSE r \in {area \div 200, area \div 200 + 1} :
                                 200 * r - area \in -99..100
                \* r = round(m / 125): -1/2 < r - m/125 <= 1/2
                roundDim == CHOOSE r \in {m \div 125, m \div 125 + 1} :
                                2 * (125 * r - m) \in -124..125
                areaT == IF roundArea > 2000 THEN roundArea ELSE 2000
                dimT == IF roundDim > 6 THEN roundDim ELSE 6
                areaD == IF w1 * h1 >= area THEN w1 * h1 - area ELSE area - w1 * h1
                wD == IF w1 >= w0 THEN w1 - w0 ELSE w0 - w1
                hD == IF h1 >= h0 THEN h1 - h0 ELSE h0 - h1
            IN  /\ w0 >= 100 /\ h0 >= 100 /\ w1 >= 100 /\ h1 >= 100
                /\ timeoutId' <=> (areaD >= areaT \/ wD >= dimT \/ hD >= dimT)
      ]_vars

\* C16 witness: from 345x1260 (0.005 * area = 2173.5, threshold 2174) the size
\* 347x1259, whose area differs by 2173, was observed and found insignificant.
C16_Witness ==
    /\ viewport.width = 345 /\ viewport.height = 1260
    /\ canvasSize = [width |-> 347, height |-> 1259]
    /\ ~observerPending
    /\ ~timeoutId

\* C17: when the settle timer expires, the size measured then is committed
\* only if it is significant against the viewport committed at that moment;
\* otherwise updateViewport is not called: the viewport is unchanged and the
\* render timer is left as it is.  Hence every width/height change of the
\* viewport is significant against the size it replaces.
C17_CommitIsSignificant ==
    [][ /\ (timeoutId /\ ~timeoutId' /\ observerPending' = observerPending
             /\ ~IsResizeSignificant(viewport, ClampSize(containerSize).width,
                                     ClampSize(containerSize).height))
           => /\ viewport' = viewport
              /\ renderTimeout' = renderTimeout
              /\ hasRenderedOnce' = hasRenderedOnce
        /\ (viewport'.width # viewport.width \/ viewport'.height # viewport.height)
           => IsResizeSignificant(viewport, viewport'.width, viewport'.height)
      ]_vars

\* C17 witness: 900x700 was observed and started the settle timer, the pane
\* went back to 802x601 before the timer expired, and the expiry committed
\* nothing: the viewport is still the initial 800x600 and no render has been
\* scheduled.
C17_Witness ==
    /\ viewport.width = 800 /\ viewport.height = 600
    /\ canvasSize = [width |-> 900, height |-> 700]
    /\ containerSize = <<8024, 6006>>
    /\ observerPending
    /\ ~timeoutId
    /\ ~hasRenderedOnce
    /\ ~renderTimeout.pending

\* C18: in the step in which a size is observed, significant or not and with
\* or without a settle timer pending, the local canvas size becomes the
\* observed size, each dimension rounded to the nearest pixel (halves up) and
\* raised to at least 100.
C18_CanvasFollowsObservation ==
    [][ (observerPending /\ ~observerPending') =>
            LET rw == CHOOSE r \in {containerSize[1] \div 10,
                                    containerSize[1] \div 10 + 1} :
                          10 * r - containerSize[1] \in -4..5
                rh == CHOOSE r \in {containerSize[2] \div 10,
                                    containerSize[2] \div 10 + 1} :
                          10 * r - containerSize[2] \in -4..5
            IN  /\ canvasSize'.width = (IF rw < 100 THEN 100 ELSE rw)
                /\ canvasSize'.height = (IF rh < 100 THEN 100 ELSE rh)
      ]_vars

\* C18 witness: with 900x700 committed, the size 802.4x600.6 has just been
\* observed; the canvas is 802x601 at once while the commit waits for the
\* settle timer.
C18_Witness ==
    /\ viewport.width = 900 /\ viewport.height = 700
    /\ containerSize = <<8024, 6006>>
    /\ canvasSize = [width |-> 802, height |-> 601]
    /\ ~observerPending
    /\ timeoutId

\* C19: the first measurement, taken at mount, commits the measured size to
\* the viewport in the same step when it differs from the placeholder 800x600.
C19_MountCommitsImmediately ==
    [][ ( /\ Init
          /\ ~observerPending'
          /\ ClampSize(containerSize) # [width |-> 800, height |-> 600] )
        => /\ viewport'.width = ClampSize(containerSize).width
           /\ viewport'.height = ClampSize(containerSize).height
      ]_vars

\* C19 as amended: the first measurement, taken at mount, sets the local
\* canvas size at once and leaves the viewport as it is; it starts the settle
\* timer exactly when the measured size is significant against the
\* placeholder, and the viewport leaves the placeholder only when that timer
\* expires, for a size that is significant against the placeholder.
C19_MountDefersCommit ==
    [][ /\ (Init /\ ~observerPending') =>
              /\ viewport' = viewport
              /\ canvasSize' = ClampSize(containerSize)
              /\ timeoutId' <=>
                    IsResizeSignificant(DEFAULT_VIEWPORT, canvasSize'.width,
                                        canvasSize'.height)
              /\ ~renderTimeout'.pending
        /\ ( /\ ~hasRenderedOnce
             /\ (viewport'.width # viewport.width \/ viewport'.height # viewport.height) )
           => /\ timeoutId
              /\ ~timeoutId'
              /\ observerPending' = observerPending
              /\ IsResizeSignificant(DEFAULT_VIEWPORT, viewport'.width,
                                     viewport'.height)
      ]_vars

\* C19 witness: right after a mount-time measurement of 900x700 the canvas is
\* 900x700, the viewport is still the placeholder and the settle timer runs.
C19_Witness ==
    /\ viewport = DEFAULT_VIEWPORT
    /\ canvasSize = [width |-> 900, height |-> 700]
    /\ containerSize = <<9000, 7000>>
    /\ ~observerPending
    /\ timeoutId
    /\ ~hasRenderedOnce

\* C20: a pending render timer runs for 250 ms as long as no render request
\* has been issued yet, also after it was restarted by a further change, and
\* for 600 ms once a request has been issued.
C20_FirstRenderDelay ==
    renderTimeout.pending =>
        renderTimeout.delay = (IF Issued = 0 THEN 250 ELSE 600)

\* C21: a step in which a render call moves on (its response arrives, its
\* image loads, or it fails) leaves the render timer, the render-relevant
\* state and the number of issued requests as they are and sends nothing; a
\* request is issued only by the expiry of a pending render timer.  So after a
\* resolution nothing is issued until a change starts the timer again.
C21_ResolutionSchedulesNothing ==
    [][ /\ (\E i \in 1..Issued : req'[i] # req[i]) =>
              /\ renderTimeout' = renderTimeout
              /\ renderTimers' = renderTimers
              /\ hasRenderedOnce' = hasRenderedOnce
              /\ storeCfg' = storeCfg
              /\ Len(req') = Len(req)
              /\ sent' = <<>>
        /\ Len(req') # Len(req) =>
              /\ renderTimeout.pending
              /\ renderTimers = 1
      ]_vars

\* C21 witness: the only request has just failed; no render timer is pending.
C21_Witness ==
    /\ req = <<"failed">>
    /\ toast = [kind |-> "error", req |-> 1]
    /\ ~renderTimeout.pending
    /\ renderTimers = 0
    /\ ~isRendering

\* C22: at most one settle timer and at most one render timer are live at any
\* time; once the container and its panel are unmounted no timer of theirs is
\* live, and from then on no step changes the viewport or issues a render
\* request.
C22_NoTimerOutlivesItsOwner ==
    [][ /\ settleTimers \in {0, 1} /\ settleTimers' \in {0, 1}
        /\ renderTimers \in {0, 1} /\ renderTimers' \in {0, 1}
        /\ ~mounted' => (settleTimers' = 0 /\ renderTimers' = 0)
        /\ ~mounted =>
              /\ viewport' = viewport
              /\ Len(req') = Len(req)
              /\ sent' = <<>>
      ]_vars

\* C22 witness: the container was unmounted after 100x100 had been committed
\* (which scheduled the first render) and 900x700 had been observed (which
\* needs the settle timer to be committed); neither the commit nor the render
\* has happened, and no timer is live.
C22_Witness ==
    /\ ~mounted
    /\ viewport.width = 100 /\ viewport.height = 100
    /\ canvasSize = [width |-> 900, height |-> 700]
    /\ containerSize = <<9000, 7000>>
    /\ Issued = 0
    /\ settleTimers = 0
    /\ renderTimers = 0

\* C23: when the bytes returned for the latest issued request cannot be
\* decoded, an error toast is shown for it, isRendering becomes false and
\* currentImage keeps its value, as when the call rejects; currentImage
\* changes only to the image of a request whose decoding has succeeded.
C23_DecodeFailureIsRenderFailure ==
    [][ /\ (Issued >= 1 /\ req[Issued] = "decode" /\ req'[Issued] = "failed") =>
              /\ toast'.kind = "error"
              /\ toast'.req = Issued
              /\ ~isRendering'
              /\ currentImage' = currentImage
        /\ currentImage' # currentImage =>
              \E i \in 1..Issued :
                  /\ req[i] = "decode"
                  /\ req'[i] = "ok"
                  /\ currentImage' = i
      ]_vars

\* C23 witness: the second request's bytes have just failed to decode; the
\* error is shown and the first request's image is still the current one.
C23_Witness ==
    /\ req = <<"ok", "failed">>
    /\ toast = [kind |-> "error", req |-> 2]
    /\ currentImage = 1
    /\ ~isRendering

\* C24: the stored amplitudeScaling is within its variant's range: a
\* percentile within [0.5, 1.0], a per-trace windowSize absent or a positive
\* integer.
C24_ScalingWithinRange ==
    /\ amplitudeScaling.type = "percentile" =>
          amplitudeScaling.percentile \in 50..100
    /\ (amplitudeScaling.type = "per-trace"
          /\ "windowSize" \in DOMAIN amplitudeScaling) =>
          \/ amplitudeScaling.windowSize = <<>>
          \/ amplitudeScaling.windowSize[1] >= 1

\* C25: whatever the steppers, the Start and Count fields, the size
\* observations and the settle timer do, the committed viewport holds integers
\* with startTrace >= 0, traceCount >= 1, width >= 100 and height >= 100.
C25_ViewportBoundsThroughUI ==
    /\ viewport.startTrace \in Nat
    /\ viewport.traceCount \in Nat \ {0}
    /\ viewport.width \in Nat \ (0..99)
    /\ viewport.height \in Nat \ (0..99)

\* C25 witness: a container of 50.4 x 0 has been observed and committed and
\* the Count field has been given a text that parses to 1 or less: every field
\* sits on its bound.
C25_Witness ==
    /\ containerSize = <<504, 0>>
    /\ ~timeoutId
    /\ viewport = [startTrace |-> 0, traceCount |-> 1, width |-> 100, height |-> 100]

\* C26: a step of the render pipeline (a request is issued, its bytes arrive,
\* its image is accepted or it fails) leaves zoomLevel and panOffset as they
\* are.
C26_PipelineKeepsView ==
    [][ (req' # req \/ currentImage' # currentImage \/ isRendering' # isRendering) =>
            /\ zoomLevel' = zoomLevel
            /\ panOffset' = panOffset
      ]_vars

\* C26 witness: the view was zoomed and panned on the first image, then a
\* second request was issued and has just failed; zoom and pan are in effect.
C26_Witness ==
    /\ req = <<"ok", "failed">>
    /\ toast = [kind |-> "error", req |-> 2]
    /\ currentImage = 1
    /\ zoomLevel # ZoomScale
    /\ panOffset # Origin

\* C27: a step that changes the zoom level without a wheel event is a
\* resetView; it sets zoomLevel to 1.0 and panOffset to (0,0) and leaves the
\* viewport, the render configuration, currentImage and the render timer as
\* they are.
C27_ResetViewKeepsViewport ==
    [][ (zoomLevel' # zoomLevel /\ wheelEvent' = <<>>) =>
            /\ zoomLevel' = ZoomScale
            /\ panOffset' = Origin
            /\ viewport' = viewport
            /\ <<renderMode, colormap, amplitudeScaling, wiggleConfig>>' =
                  <<renderMode, colormap, amplitudeScaling, wiggleConfig>>
            /\ currentImage' = currentImage
            /\ renderTimeout' = renderTimeout
      ]_vars

\* C28: once the image of the first request is shown and nothing but viewport
\* updates that change no value have happened since, no further render
\* request is issued (it would carry the configuration already rendered).
C28_NoopCausesNoRequest ==
    [][ (Issued = 1 /\ req[1] = "ok" /\ currentImage = 1 /\ storeCfg' = storeCfg) =>
            /\ Len(req') = Len(req)
            /\ sent' = <<>>
      ]_vars

\* C29: once the container's size has been handled and neither the settle
\* timer nor the render timer is pending (nothing is left that happens without
\* input), a first render request has been issued.
C29_MeasuredMeansRendered ==
    (~observerPending /\ ~timeoutId /\ ~renderTimeout.pending) => Issued >= 1

\* C30: whenever no issued call is unresolved isRendering is false; a change
\* of the render-relevant state made after the first schedule leaves a render
\* timer pending, whatever the earlier calls did; and when the timers fire and
\* every call comes to an end, isRendering eventually is false for good.
C30_IndicatorSettles ==
    /\ []((\A i \in 1..Issued : ~Unresolved(i)) => ~isRendering)
    /\ [][ (storeCfg' # storeCfg /\ hasRenderedOnce) => renderTimeout'.pending ]_vars
    /\ <>[](~isRendering)

\* C30 witness: two overlapping requests; the second failed, then the first
\* one's image arrived late and was accepted; the indicator is off.
C30_Witness ==
    /\ req = <<"ok", "failed">>
    /\ toast = [kind |-> "success", req |-> 1]
    /\ currentImage = 1
    /\ ~isRendering

\* C31: mouse-down starts a drag, keeps the pan and captures cursor minus pan;
\* a mouse-move in a drag keeps what was captured and sets the pan to the
\* cursor minus it, so pan minus cursor is the same after every event of the
\* drag; mouse-up and mouse-leave end the drag and keep the pan; a mouse-move
\* outside a drag keeps the pan.
C31_DragKeepsPanMinusCursor ==
    [][ /\ mouseEvent'.kind = "down" =>
              /\ isDragging'
              /\ panOffset' = panOffset
              /\ panOffset'.x - mouseEvent'.x = 0 - dragStart'.x
              /\ panOffset'.y - mouseEvent'.y = 0 - dragStart'.y
        /\ (mouseEvent'.kind = "move" /\ isDragging) =>
              /\ isDragging'
              /\ dragStart' = dragStart
              /\ panOffset'.x - mouseEvent'.x = 0 - dragStart.x
              /\ panOffset'.y - mouseEvent'.y = 0 - dragStart.y
        /\ (mouseEvent'.kind = "move" /\ ~isDragging) =>
              /\ ~isDragging'
              /\ panOffset' = panOffset
        /\ mouseEvent'.kind \in {"up", "leave"} =>
              /\ ~isDragging'
              /\ panOffset' = panOffset
      ]_vars

\* C31 witness: a drag from (0,0) to (10,5) has moved the pan by (10,5) and has
\* ended; the cursor has then moved back to (0,0) and the pan has stayed.
C31_Witness ==
    /\ mouseEvent = [kind |-> "move", x |-> 0, y |-> 0]
    /\ ~isDragging
    /\ panOffset = [x |-> 10, y |-> 5]

\* C32: when the render timer expires while no file is loaded, no request is
\* issued or sent, isRendering and currentImage keep their values and an
\* error toast is shown.
C32_NoFileNoRender ==
    [][ (renderTimeout.pending /\ ~renderTimeout'.pending /\ ~fileLoaded) =>
            /\ req' = req
            /\ sent' = <<>>
            /\ isRendering' = isRendering
            /\ currentImage' = currentImage
            /\ toast'.kind = "error"
      ]_vars

\* C32 witness: a first image was rendered, the file path was cleared, and the
\* timer this started has expired: the error is shown, nothing was issued.
C32_Witness ==
    /\ ~fileLoaded
    /\ toast = [kind |-> "error", req |-> 0]
    /\ ~renderTimeout.pending
    /\ req = <<"ok">>
    /\ currentImage = 1
    /\ ~isRendering

\* C33: when every call of loadTrace has resolved, currentTrace is the header
\* asked for by the last call, or null when resetTraceState has run since
\* that call.
C33_LatestTraceHeaderWins ==
    (Len(loads) >= 1 /\ \A k \in 1..Len(loads) : loads[k].state = "ok") =>
        currentTrace = IF loads[Len(loads)].beforeReset THEN 0
                       ELSE loads[Len(loads)].index

\* C34: a step in which the Start or the Count field is given a text that
\* parseInt turns into NaN leaves the viewport, the rest of the
\* render-relevant state and the render timer as they are and issues nothing.
C34_UnparsableTextIgnored ==
    [][ (textEvent'.field # "none" /\ ParseInt(textEvent'.text).nan) =>
            /\ storeCfg' = storeCfg
            /\ panel' = panel
            /\ req' = req
            /\ sent' = <<>>
      ]_vars

\* C34 witness: after the first request was issued, with no render timer
\* pending, the Count field was given the text x; still no timer is pending.
C34_Witness ==
    /\ textEvent = [field |-> "traceCount", text |-> <<"x">>]
    /\ Issued = 1
    /\ hasRenderedOnce
    /\ ~renderTimeout.pending

====
